---- MODULE Spec2Model ----
(***************************************************************************)
(* Model of image/src/codecs/avif/encoder.rs: the AvifEncoder session      *)
(* (config, fallback scratch buffer, output sink), the color dispatch of   *)
(* encode_as_img, the byte reinterpretation of cast_buffer and the outer   *)
(* write_image call.                                                       *)
(***************************************************************************)
EXTENDS Integers, Sequences, FiniteSets, TLC

VARIABLES pc, endian, config, fallback, inner, call, ret

vars == <<pc, endian, config, fallback, inner, call, ret>>

(***************************************************************************)
(* Bounds of the explored inputs.                                          *)
(***************************************************************************)
MaxLen == 9
MaxDim == 2
MaxPayload == 2
MaxAddr == 3

(***************************************************************************)
(* Program constants.                                                      *)
(***************************************************************************)
U8Max == 255
MaxQuality == 100
MaxSpeed == 10
DefaultSpeed == 1
DefaultQuality == 100

U8 == 0..U8Max

\* Byte buffers a caller may pass: every length up to MaxLen, with distinct
\* bytes kept below 2^7 so that a 4-byte channel value stays a TLC integer.
Seeds == {0, 100}
MkBuf(n, s) == [i \in 1..n |-> (s + 37 * i) % 128]
Buffers == {MkBuf(n, s) : n \in 0..MaxLen, s \in Seeds}
Images == {MkBuf(n, 0) : n \in 0..MaxLen}
Dims == 0..MaxDim
Addrs == 0..MaxAddr
Payloads == {[i \in 1..n |-> 7 * i] : n \in 0..MaxPayload}

(***************************************************************************)
(* Color types and their pixel layouts.                                    *)
(***************************************************************************)
Native == "Rgba8"
Convert8 == {"L8", "La8", "Rgb8", "Bgr8", "Bgra8"}
Convert16 == {"L16", "La16", "Rgb16", "Rgba16"}
Supported == {Native} \cup Convert8 \cup Convert16
ColorType == Supported \cup {"NonExhaustive"}

channel_count(color) ==
    CASE color \in {"L8", "L16"} -> 1
      [] color \in {"La8", "La16"} -> 2
      [] color \in {"Rgb8", "Bgr8", "Rgb16"} -> 3
      [] OTHER -> 4

bytes_per_channel(color) == IF color \in Convert16 THEN 2 ELSE 1

ChannelU8 == [size |-> 1, align |-> 1]
ChannelU16 == [size |-> 2, align |-> 2]
ChannelU32 == [size |-> 4, align |-> 4]
ChannelTypes == {ChannelU8, ChannelU16, ChannelU32}

(***************************************************************************)
(* Errors and results.                                                     *)
(***************************************************************************)
NoErr == [kind |-> "none", detail |-> ""]
DimensionMismatch == [kind |-> "DimensionMismatch", detail |-> ""]
Generic(msg) == [kind |-> "Generic", detail |-> msg]
UnsupportedColor(color) == [kind |-> "Unsupported", detail |-> color]
EncodingError == [kind |-> "Encoding", detail |-> "Avif"]
IoError == [kind |-> "IoError", detail |-> ""]

NoCall == [op |-> "none"]
NoRet == [res |-> "none"]
NoView == [backing |-> "none", buf |-> <<>>, width |-> 0, height |-> 0]

(***************************************************************************)
(* Plain-old-data reinterpretation between bytes and channel values.       *)
(***************************************************************************)
RECURSIVE from_ne_bytes(_, _)
from_ne_bytes(b, e) ==
    IF b = <<>> THEN 0
    ELSE IF e = "little"
         THEN Head(b) + 256 * from_ne_bytes(Tail(b), e)
         ELSE b[Len(b)] + 256 * from_ne_bytes(SubSeq(b, 1, Len(b) - 1), e)

to_ne_bytes(v, W, e) ==
    LET le == [i \in 1..W |-> (v \div (256 ^ (i - 1))) % 256]
    IN  IF e = "little" THEN le ELSE [i \in 1..W |-> le[W + 1 - i]]

\* &[u8] viewed as &[Channel]
cast_slice(bytes, W, e) ==
    [i \in 1..(Len(bytes) \div W) |->
        from_ne_bytes(SubSeq(bytes, (i - 1) * W + 1, i * W), e)]

\* &mut [Channel] viewed as &mut [u8]
cast_slice_mut(elems, W, e) ==
    [k \in 1..(Len(elems) * W) |->
        to_ne_bytes(elems[((k - 1) \div W) + 1], W, e)[((k - 1) % W) + 1]]

\* bytemuck::try_cast_slice::<u8, Channel>: alignment is checked before slop.
try_cast_slice(addr, len, Channel) ==
    IF Channel.align > 1 /\ addr % Channel.align # 0
    THEN "TargetAlignmentGreaterAndInputNotAligned"
    ELSE IF Channel.size = 1 THEN "Ok"
    ELSE IF len % Channel.size = 0 THEN "Ok"
    ELSE "OutputSliceWouldHaveSlop"

(***************************************************************************)
(* cast_buffer: reinterpret the input bytes as channel values, borrowing   *)
(* when possible and copying into an owned vector otherwise.               *)
(***************************************************************************)
CastErr(err) == [res |-> "Err", err |-> err, tag |-> "none", data |-> <<>>, allocs |-> 0]
CastPanic(allocs) == [res |-> "Panic", err |-> NoErr, tag |-> "none", data |-> <<>>, allocs |-> allocs]

\* Variant: the copy is left out, the destination keeps its zeroes.
copy_from_slice_Noop(view, src) == [ok |-> TRUE, bytes |-> view]

\* <[u8]>::copy_from_slice: panics unless both slices have the same length.
copy_from_slice(view, src) ==
    IF Len(view) = Len(src) THEN [ok |-> TRUE, bytes |-> src]
    ELSE [ok |-> FALSE, bytes |-> view]

\* Variant: the unaligned branch copies without checking for slop.
cast_buffer_NoSlopCheck(buf, addr, Channel, e) ==
    LET cast == try_cast_slice(addr, Len(buf), Channel)
    IN  CASE cast = "Ok" ->
               [res |-> "Ok", err |-> NoErr, tag |-> "Borrowed",
                data |-> cast_slice(buf, Channel.size, e), allocs |-> 0]
          [] cast = "OutputSliceWouldHaveSlop" -> CastErr(DimensionMismatch)
          [] cast = "TargetAlignmentGreaterAndInputNotAligned" ->
               LET len == Len(buf) \div Channel.size
                   data == [i \in 1..len |-> 0]
                   view == cast_slice_mut(data, Channel.size, e)
                   copied == copy_from_slice(view, buf)
               IN  IF ~copied.ok THEN CastPanic(1)
                   ELSE [res |-> "Ok", err |-> NoErr, tag |-> "Owned",
                         data |-> cast_slice(copied.bytes, Channel.size, e),
                         allocs |-> 1]
          [] OTHER -> CastErr(Generic(cast))

\* Variant: a misaligned input of the right length is borrowed all the same.
cast_buffer_BorrowUnaligned(buf, addr, Channel, e) ==
    LET cast == try_cast_slice(addr, Len(buf), Channel)
    IN  CASE cast = "Ok" ->
               [res |-> "Ok", err |-> NoErr, tag |-> "Borrowed",
                data |-> cast_slice(buf, Channel.size, e), allocs |-> 0]
          [] cast = "OutputSliceWouldHaveSlop" -> CastErr(DimensionMismatch)
          [] cast = "TargetAlignmentGreaterAndInputNotAligned" ->
               IF Len(buf) % Channel.size # 0
               THEN CastErr(DimensionMismatch)
               ELSE [res |-> "Ok", err |-> NoErr, tag |-> "Borrowed",
                     data |-> cast_slice(buf, Channel.size, e), allocs |-> 0]
          [] OTHER -> CastErr(Generic(cast))

cast_buffer(buf, addr, Channel, e) ==
    LET cast == try_cast_slice(addr, Len(buf), Channel)
    IN  CASE cast = "Ok" ->
               [res |-> "Ok", err |-> NoErr, tag |-> "Borrowed",
                data |-> cast_slice(buf, Channel.size, e), allocs |-> 0]
          [] cast = "OutputSliceWouldHaveSlop" -> CastErr(DimensionMismatch)
          [] cast = "TargetAlignmentGreaterAndInputNotAligned" ->
               IF Len(buf) % Channel.size # 0
               THEN CastErr(DimensionMismatch)
               ELSE LET len == Len(buf) \div Channel.size
                        data == [i \in 1..len |-> 0]
                        view == cast_slice_mut(data, Channel.size, e)
                        copied == copy_from_slice(view, buf)
                    IN  IF ~copied.ok THEN CastPanic(1)
                        ELSE [res |-> "Ok", err |-> NoErr, tag |-> "Owned",
                              data |-> cast_slice(copied.bytes, Channel.size, e),
                              allocs |-> 1]
          [] OTHER -> CastErr(Generic(cast))

(***************************************************************************)
(* Image buffers, conversion to Rgba<u8> and the typed view handed to the  *)
(* encoder.                                                                *)
(***************************************************************************)
\* ImageBuffer::from_raw is defined in crate::buffer, outside encoder.rs; it is
\* taken here as the exact test the encoder's contract states: the container
\* holds width * height * channels subpixels.
from_raw(width, height, len, channels) == len = width * height * channels

\* Variant: any container at least as long as the image is accepted.
try_from_raw_AtLeast(len, width, height, channels) ==
    IF len >= width * height * channels
    THEN [ok |-> TRUE, err |-> NoErr]
    ELSE [ok |-> FALSE, err |-> DimensionMismatch]

try_from_raw(len, width, height, channels) ==
    IF from_raw(width, height, len, channels)
    THEN [ok |-> TRUE, err |-> NoErr]
    ELSE [ok |-> FALSE, err |-> DimensionMismatch]

\* Narrowing of one channel value to 8 bits.
to_u8(v, bpc) == IF bpc = 1 THEN v ELSE (v + 128) \div 257

\* Rgba<u8>::from_color for one source pixel given as its channel values.
from_color(px, color) ==
    LET c(i) == to_u8(px[i], bytes_per_channel(color))
    IN  CASE color \in {"L8", "L16"} -> <<c(1), c(1), c(1), 255>>
          [] color \in {"La8", "La16"} -> <<c(1), c(1), c(1), c(2)>>
          [] color \in {"Rgb8", "Rgb16"} -> <<c(1), c(2), c(3), 255>>
          [] color = "Bgr8" -> <<c(3), c(2), c(1), 255>>
          [] color = "Bgra8" -> <<c(3), c(2), c(1), c(4)>>
          [] OTHER -> <<c(1), c(2), c(3), c(4)>>

\* ImageBuffer::convert followed by into_raw: width*height pixels of 4 bytes.
convert(image) ==
    LET ch == channel_count(image.color)
        px(i) == SubSeq(image.data, (i - 1) * ch + 1, i * ch)
    IN  [k \in 1..(image.width * image.height * 4) |->
            from_color(px(((k - 1) \div 4) + 1), image.color)[((k - 1) % 4) + 1]]

\* rgb::AsPixels: a byte slice viewed as RGBA8 records.
as_pixels(bytes) ==
    [i \in 1..(Len(bytes) \div 4) |-> SubSeq(bytes, (i - 1) * 4 + 1, i * 4)]

\* imgref's Img::new, taken as a total constructor; backing records which
\* storage the pixel slice borrows from.
Img_new(pixels, width, height, backing) ==
    [backing |-> backing, buf |-> pixels, width |-> width, height |-> height]

\* Variant: the view is taken over the scratch buffer before it is replaced.
convert_into_Stale(buf, image) ==
    LET raw == convert(image)
    IN  [buf |-> raw,
         view |-> Img_new(as_pixels(buf), image.width, image.height, "fallback")]

convert_into(buf, image) ==
    LET raw == convert(image)
    IN  [buf |-> raw,
         view |-> Img_new(as_pixels(raw), image.width, image.height, "fallback")]

(***************************************************************************)
(* encode_as_img: the dispatch on the color type.                          *)
(***************************************************************************)
PrepFail(res, err, fb, allocs) ==
    [res |-> res, err |-> err, view |-> NoView, fallback |-> fb, allocs |-> allocs]

PrepOk(view, fb, allocs) ==
    [res |-> "Ok", err |-> NoErr, view |-> view, fallback |-> fb, allocs |-> allocs]

\* Variant: the native format goes through the scratch buffer like the others.
rgba8_arm_Copying(data, width, height, fb) ==
    LET img == try_from_raw(Len(data), width, height, 4)
    IN  IF ~img.ok THEN PrepFail("Err", img.err, fb, 0)
        ELSE IF width * height = 0 THEN PrepFail("Err", DimensionMismatch, fb, 0)
        ELSE PrepOk(Img_new(as_pixels(data), width, height, "fallback"), data, 1)

rgba8_arm(data, width, height, fb) ==
    LET img == try_from_raw(Len(data), width, height, 4)
    IN  IF ~img.ok THEN PrepFail("Err", img.err, fb, 0)
        ELSE IF width * height = 0 THEN PrepFail("Err", DimensionMismatch, fb, 0)
        ELSE PrepOk(Img_new(as_pixels(data), width, height, "data"), fb, 0)

convert_arm(subpixels, width, height, color, fb, allocs) ==
    LET image == try_from_raw(Len(subpixels), width, height, channel_count(color))
        out == convert_into(fb, [data |-> subpixels, width |-> width,
                                 height |-> height, color |-> color])
    IN  IF ~image.ok THEN PrepFail("Err", image.err, fb, allocs)
        ELSE PrepOk(out.view, out.buf, allocs + 1)

cast_arm(data, addr, width, height, color, fb, e) ==
    LET buffer == cast_buffer(data, addr, ChannelU16, e)
    IN  IF buffer.res # "Ok" THEN PrepFail(buffer.res, buffer.err, fb, buffer.allocs)
        ELSE convert_arm(buffer.data, width, height, color, fb, buffer.allocs)

\* Variant: the wildcard arm reports the wrong error kind.
unsupported_arm_WrongKind(color, fb) == PrepFail("Err", DimensionMismatch, fb, 0)

unsupported_arm(color, fb) == PrepFail("Err", UnsupportedColor(color), fb, 0)

encode_as_img(data, addr, width, height, color, fb, e) ==
    CASE color = Native -> rgba8_arm(data, width, height, fb)
      [] color \in Convert8 -> convert_arm(data, width, height, color, fb, 0)
      [] color \in Convert16 -> cast_arm(data, addr, width, height, color, fb, e)
      [] OTHER -> unsupported_arm(color, fb)

(***************************************************************************)
(* Construction and configuration of the encoder.                          *)
(***************************************************************************)
min(a, b) == IF a < b THEN a ELSE b

ColorSpaces == {"Srgb", "Bt709"}
to_ravif(color_space) == IF color_space = "Srgb" THEN "RGB" ELSE "YCbCr"

\* Variant: alpha_quality takes the caller's value instead of the clamped one.
Config_AlphaUnclamped(speed, quality) ==
    LET q == min(quality, MaxQuality)
        s == min(speed, MaxSpeed)
    IN  [quality |-> q, alpha_quality |-> quality, speed |-> s,
         premultiplied_alpha |-> FALSE, color_space |-> "RGB"]

Config(speed, quality) ==
    LET q == min(quality, MaxQuality)
        s == min(speed, MaxSpeed)
    IN  [quality |-> q, alpha_quality |-> q, speed |-> s,
         premultiplied_alpha |-> FALSE, color_space |-> "RGB"]

NoConfig == [quality |-> 0, alpha_quality |-> 0, speed |-> 0,
             premultiplied_alpha |-> FALSE, color_space |-> "none"]

new_with_speed_quality(speed, quality) ==
    /\ pc = "none"
    /\ pc' = "ready"
    /\ config' = Config(speed, quality)
    /\ fallback' = <<>>
    /\ inner' = <<>>
    /\ call' = [op |-> "new_with_speed_quality", speed |-> speed, quality |-> quality]
    /\ ret' = [res |-> "Ok"]
    /\ UNCHANGED endian

new == new_with_speed_quality(DefaultSpeed, DefaultQuality)

with_colorspace(color_space) ==
    /\ pc = "ready"
    /\ config' = [config EXCEPT !.color_space = to_ravif(color_space)]
    /\ UNCHANGED <<pc, endian, fallback, inner, call, ret>>

(***************************************************************************)
(* The calls on a constructed encoder.                                     *)
(***************************************************************************)
\* encode_as_img borrows the encoder until the returned view is released.
Prepare(data, addr, width, height, color) ==
    /\ pc = "ready"
    /\ LET r == encode_as_img(data, addr, width, height, color, fallback, endian)
       IN  /\ fallback' = r.fallback
           /\ ret' = [res |-> r.res, err |-> r.err, view |-> r.view,
                      allocs |-> r.allocs, data |-> data]
    /\ call' = [op |-> "encode_as_img", data |-> data, addr |-> addr,
                width |-> width, height |-> height, color |-> color,
                scratch |-> fallback]
    /\ pc' = "borrowed"
    /\ UNCHANGED <<endian, config, inner>>

Release ==
    /\ pc = "borrowed"
    /\ pc' = "ready"
    /\ call' = NoCall
    /\ ret' = NoRet
    /\ UNCHANGED <<endian, config, fallback, inner>>

\* Variant: a single write whose short count is not looked at.
write_all_Short(sink, data, room) ==
    IF room >= Len(data)
    THEN [ok |-> TRUE, sink |-> sink \o data]
    ELSE [ok |-> TRUE, sink |-> sink \o SubSeq(data, 1, room)]

\* Write::write_all on a sink that accepts `room` more bytes before failing.
write_all(sink, data, room) ==
    IF room >= Len(data)
    THEN [ok |-> TRUE, sink |-> sink \o data]
    ELSE [ok |-> FALSE, sink |-> sink \o SubSeq(data, 1, room)]

\* encoded: the outcome of ravif::encode_rgba, an error or a payload.
write_image_result(data, addr, width, height, color, encoded, room) ==
    LET buffer == encode_as_img(data, addr, width, height, color, fallback, endian)
        out == write_all(inner, encoded.payload, room)
    IN  IF buffer.res # "Ok"
        THEN [res |-> buffer.res, err |-> buffer.err, fallback |-> buffer.fallback,
              invoked |-> FALSE, sink |-> inner]
        ELSE IF ~encoded.ok
        THEN [res |-> "Err", err |-> EncodingError, fallback |-> buffer.fallback,
              invoked |-> TRUE, sink |-> inner]
        ELSE IF ~out.ok
        THEN [res |-> "Err", err |-> IoError, fallback |-> buffer.fallback,
              invoked |-> TRUE, sink |-> out.sink]
        ELSE [res |-> "Ok", err |-> NoErr, fallback |-> buffer.fallback,
              invoked |-> TRUE, sink |-> out.sink]

EncodeOutcomes ==
    {[ok |-> FALSE, payload |-> <<>>]} \cup {[ok |-> TRUE, payload |-> p] : p \in Payloads}

NotInvoked == [ok |-> FALSE, payload |-> <<>>]

write_image(data, addr, width, height, color) ==
    /\ pc = "ready"
    /\ LET prepared == encode_as_img(data, addr, width, height, color, fallback, endian).res = "Ok"
       IN  \E encoded \in IF prepared THEN EncodeOutcomes ELSE {NotInvoked},
              room \in IF prepared THEN 0..MaxPayload ELSE {0} :
               LET r == write_image_result(data, addr, width, height, color, encoded, room)
               IN  /\ fallback' = r.fallback
                   /\ inner' = r.sink
                   /\ ret' = [res |-> r.res, err |-> r.err, invoked |-> r.invoked]
                   /\ call' = [op |-> "write_image", data |-> data, addr |-> addr,
                               width |-> width, height |-> height, color |-> color,
                               encoded |-> encoded, room |-> room]
    /\ pc' = "done"
    /\ UNCHANGED <<endian, config>>

\* cast_buffer on its own, for any channel type and start address.
CastBuffer(buf, addr, Channel) ==
    /\ pc = "none"
    /\ call' = [op |-> "cast_buffer", buf |-> buf, addr |-> addr, channel |-> Channel]
    /\ ret' = cast_buffer(buf, addr, Channel, endian)
    /\ UNCHANGED <<pc, endian, config, fallback, inner>>

(***************************************************************************)
(* Specifications.                                                         *)
(***************************************************************************)
Init ==
    /\ pc = "none"
    /\ endian \in {"little", "big"}
    /\ config = NoConfig
    /\ fallback = <<>>
    /\ inner = <<>>
    /\ call = NoCall
    /\ ret = NoRet

DoNew == new

DoPrepare ==
    /\ pc = "ready"
    /\ \E data \in Images, addr \in Addrs, width \in Dims, height \in Dims, color \in ColorType :
        Prepare(data, addr, width, height, color)

DoWriteImage ==
    /\ pc = "ready"
    /\ \E data \in Images, addr \in Addrs, width \in Dims, height \in Dims, color \in ColorType :
        write_image(data, addr, width, height, color)

Next == DoNew \/ DoPrepare \/ Release \/ DoWriteImage

Spec == Init /\ [][Next]_vars

DoNewWithSpeedQuality == pc = "none" /\ \E speed \in U8, quality \in U8 : new_with_speed_quality(speed, quality)

DoWithColorspace == \E color_space \in ColorSpaces : with_colorspace(color_space)

NextNew == DoNewWithSpeedQuality \/ DoWithColorspace

SpecNew == Init /\ [][NextNew]_vars

DoCastBuffer == \E buf \in Buffers, addr \in Addrs, Channel \in ChannelTypes : CastBuffer(buf, addr, Channel)

NextCast == DoCastBuffer

SpecCast == Init /\ [][NextCast]_vars

(***************************************************************************)
(* Properties.                                                             *)
(***************************************************************************)
ExpectedBytes(c) == c.width * c.height * channel_count(c.color) * bytes_per_channel(c.color)

IsPrepare == call.op = "encode_as_img"
IsWrite == call.op = "write_image"
IsCast == call.op = "cast_buffer"

C2_ZeroSizedRejected ==
    (IsPrepare /\ call.color \in Supported /\ (call.width = 0 \/ call.height = 0))
        => (ret.res = "Err" /\ ret.err = DimensionMismatch)

C4_UnsupportedRejected ==
    (IsWrite /\ call.color \notin Supported)
        => /\ ret.res = "Err"
           /\ ret.err = UnsupportedColor(call.color)
           /\ ~ret.invoked
           /\ inner = <<>>

C4_UnsupportedSeen ==
    /\ IsWrite
    /\ call.color \notin Supported
    /\ Len(call.data) = 4 /\ call.width = 1 /\ call.height = 1
    /\ ret.err.kind = "Unsupported"

\* C5: write_image reports success only when the whole payload reached the
\* sink; the sink is written only after both encode_as_img and the encoder
\* succeeded, and a sink taking only part of the payload ends the call with an
\* I/O error.
C5_NoSuccessWithoutFullWrite ==
    IsWrite
        => /\ ret.res = "Ok" => (ret.invoked /\ call.encoded.ok /\ inner = call.encoded.payload)
           /\ inner # <<>> => (ret.invoked /\ call.encoded.ok)
           /\ (ret.invoked /\ call.encoded.ok /\ call.room < Len(call.encoded.payload))
                => (ret.res = "Err" /\ ret.err = IoError)

C5_PartialWriteFails ==
    /\ IsWrite
    /\ Len(inner) > 0
    /\ Len(inner) < Len(call.encoded.payload)
    /\ ret.res = "Err"
    /\ ret.err = IoError

\* C6: cast_buffer on a slice whose length is not a multiple of the channel
\* size fails with DimensionMismatch whatever the alignment of its address,
\* without an owned buffer and without a panic.
C6_SlopRejected ==
    (IsCast /\ Len(call.buf) % call.channel.size # 0)
        => /\ ret.res = "Err"
           /\ ret.err = DimensionMismatch
           /\ ret.allocs = 0
           /\ ret.tag = "none"

C6_UnalignedSlopSeen ==
    /\ IsCast
    /\ Len(call.buf) % call.channel.size # 0
    /\ call.addr % call.channel.align # 0
    /\ ret.err = DimensionMismatch

\* C7: cast_buffer on a slice whose length is a multiple of the channel size
\* but whose address is misaligned yields an owned buffer of len / size
\* elements which, read back as bytes, equals the source bytes in order.
C7_UnalignedCopyKeepsBytes ==
    (IsCast /\ Len(call.buf) % call.channel.size = 0
            /\ call.addr % call.channel.align # 0)
        => /\ ret.res = "Ok"
           /\ ret.tag = "Owned"
           /\ Len(ret.data) * call.channel.size = Len(call.buf)
           /\ cast_slice_mut(ret.data, call.channel.size, endian) = call.buf

C7_OwnedCopySeen ==
    /\ IsCast
    /\ ret.tag = "Owned"
    /\ call.channel.size = 2
    /\ Len(ret.data) = 3

\* C8: cast_buffer returns a borrowed view exactly when the length is a
\* multiple of the channel size and the address is aligned for the channel
\* type; every other input gives an owned copy or an error.
C8_BorrowedIffAlignedMultiple ==
    IsCast
        => /\ ret.tag = "Borrowed"
                <=> /\ Len(call.buf) % call.channel.size = 0
                    /\ call.addr % call.channel.align = 0
           /\ ret.tag # "Borrowed" => (ret.tag = "Owned" \/ ret.res = "Err")

C8_BorrowedSeen ==
    /\ IsCast
    /\ ret.tag = "Borrowed"
    /\ call.channel.size = 4
    /\ Len(call.buf) = 8

\* C9: when encode_as_img succeeds for Rgba8 the view is over the caller's
\* bytes, nothing is allocated, and the fallback buffer and the caller's bytes
\* are as they were before the call.
C9_NativeZeroCopy ==
    (IsPrepare /\ call.color = Native /\ ret.res = "Ok")
        => /\ ret.view.backing = "data"
           /\ \A i \in 1..Len(call.data) :
                ret.view.buf[((i - 1) \div 4) + 1][((i - 1) % 4) + 1] = call.data[i]
           /\ ret.allocs = 0
           /\ fallback = call.scratch
           /\ ret.data = call.data

C9_NativeAfterConversionSeen ==
    /\ IsPrepare
    /\ call.color = Native
    /\ ret.res = "Ok"
    /\ call.scratch # <<>>
    /\ fallback = call.scratch

\* C10: for all speed and quality in 0..255 construction succeeds and stores
\* quality = min(quality, 100), alpha_quality = the stored quality and
\* speed = min(speed, 10).
C10_Clamped ==
    call.op = "new_with_speed_quality"
        => /\ pc = "ready"
           /\ ret.res = "Ok"
           /\ config.quality = (IF call.quality > 100 THEN 100 ELSE call.quality)
           /\ config.alpha_quality = config.quality
           /\ config.speed = (IF call.speed > 10 THEN 10 ELSE call.speed)

C10_SaturatedSeen ==
    /\ call.op = "new_with_speed_quality"
    /\ call.quality = 255
    /\ call.speed = 255
    /\ config.quality = 100
    /\ config.speed = 10

====
